---------------------------- MODULE Spec2Model ----------------------------
(***************************************************************************)
(* Model of the CreateProject page of gitlab-repo-sculptor                 *)
(* (src/src/pages/CreateProject.tsx): the group autocomplete (common       *)
(* groups, debounced server search, per-session cache, display set) and    *)
(* the project form (validation, submission).                              *)
(*                                                                         *)
(* Strings are TLA+ strings; a group is a record [id, name, full_path].    *)
(* The page is modelled for an authenticated session (credentials set by   *)
(* Login before navigating here); without credentials the mount effect     *)
(* navigates away and nothing else runs.                                   *)
(***************************************************************************)
EXTENDS Integers, Sequences, FiniteSets, TLC

(***************************************************************************)
(* Bounds of the model.                                                    *)
(***************************************************************************)
\* number of searches handleSearchChange may schedule in one behaviour
MaxSearches == 2
\* longest list the server returns for one request
MaxResults == 2
\* number of createProject requests sent in one behaviour
MaxSubmits == 2

(***************************************************************************)
(* Program constants.                                                      *)
(***************************************************************************)
\* minimum term length for a server search
MinSearchLen == 3

(***************************************************************************)
(* String helpers: String.prototype.toLowerCase / includes.                *)
(***************************************************************************)
CharAt(s, i) == SubSeq(s, i, i)

\* toLowerCase of one character: the 26 ASCII capitals, every other
\* character is kept
LowerChar(c) ==
  CASE c = "A" -> "a" []
       c = "B" -> "b" []
       c = "C" -> "c" []
       c = "D" -> "d" []
       c = "E" -> "e" []
       c = "F" -> "f" []
       c = "G" -> "g" []
       c = "H" -> "h" []
       c = "I" -> "i" []
       c = "J" -> "j" []
       c = "K" -> "k" []
       c = "L" -> "l" []
       c = "M" -> "m" []
       c = "N" -> "n" []
       c = "O" -> "o" []
       c = "P" -> "p" []
       c = "Q" -> "q" []
       c = "R" -> "r" []
       c = "S" -> "s" []
       c = "T" -> "t" []
       c = "U" -> "u" []
       c = "V" -> "v" []
       c = "W" -> "w" []
       c = "X" -> "x" []
       c = "Y" -> "y" []
       c = "Z" -> "z" []
       OTHER -> c

RECURSIVE toLowerCase(_)
toLowerCase(s) ==
  IF Len(s) = 0 THEN ""
  ELSE LowerChar(CharAt(s, 1)) \o toLowerCase(SubSeq(s, 2, Len(s)))

includes(s, t) ==
  \E i \in 0..(Len(s) - Len(t)) : SubSeq(s, i + 1, i + Len(t)) = t

(***************************************************************************)
(* Groups.                                                                 *)
(***************************************************************************)
Group(i, n, p) == [id |-> i, name |-> n, full_path |-> p]

\* the fallback list of loadGroups
mockGroups ==
  << Group(1, "frontend-team", "company/frontend-team"),
     Group(2, "backend-team", "company/backend-team"),
     Group(3, "devops-team", "company/devops-team"),
     Group(4, "platform-team", "company/platform-team"),
     Group(5, "mobile-team", "company/mobile-team"),
     Group(6, "qa-team", "company/qa-team") >>

\* the groups the remote service knows (ids are unique there)
Directory ==
  { Group(1, "frontend-team", "company/frontend-team"),
    Group(4, "platform-team", "company/platform-team") }

\* a response of the remote service: groups of the directory, no id twice
RECURSIVE SeqsUpTo(_, _)
SeqsUpTo(S, n) ==
  IF n = 0 THEN { <<>> }
  ELSE LET shorter == SeqsUpTo(S, n - 1)
       IN  shorter \cup
           { Append(q, g) : q \in { r \in shorter : Len(r) = n - 1 }, g \in S }

Ids(q) == { q[i].id : i \in 1..Len(q) }

Responses == { q \in SeqsUpTo(Directory, MaxResults) : Cardinality(Ids(q)) = Len(q) }

\* what the user can type into the search input
Terms == { "", "pl", "PLAT", "front" }

(***************************************************************************)
(* displayGroups (useMemo): common groups + search results, deduplicated.  *)
(***************************************************************************)
\* Array.prototype.findIndex(g => g.id === id), 1-based, 0 if absent
findIndex(self, id) ==
  IF \E i \in 1..Len(self) : self[i].id = id
  THEN CHOOSE i \in 1..Len(self) :
         /\ self[i].id = id
         /\ \A j \in 1..(i - 1) : self[j].id # id
  ELSE 0

RECURSIVE filterFirst(_, _)
\* self.filter((group, index) => self.findIndex(...) === index), from index i
filterFirst(self, i) ==
  IF i > Len(self) THEN <<>>
  ELSE IF findIndex(self, self[i].id) = i
       THEN <<self[i]>> \o filterFirst(self, i + 1)
       ELSE filterFirst(self, i + 1)

\* commonMatches without the two toLowerCase calls
commonMatchesCaseSensitive(gs, term) ==
  SelectSeq(gs, LAMBDA g : includes(g.full_path, term))

commonMatches(gs, term) ==
  SelectSeq(gs, LAMBDA g : includes(toLowerCase(g.full_path), toLowerCase(term)))

\* displayGroups without the deduplicating filter
displayGroupsNoDedup(gs, results, term) ==
  IF Len(term) >= MinSearchLen
  THEN commonMatches(gs, term) \o results
  ELSE gs

displayGroups(gs, results, term) ==
  IF Len(term) >= MinSearchLen
  THEN filterFirst(commonMatches(gs, term) \o results, 1)
  ELSE gs

(***************************************************************************)
(* The project form: schema, default values.                               *)
(***************************************************************************)
Undefined == "undefined"

ProjectTypes == { "library", "monorepo", "microservice", "delivery" }

\* the stacks of the schema the model lets the user choose
Stacks == { "node" }

\* servers: the model carries two of the four keys (a, b, c, d); every
\* handler treats all keys alike
ServerKeys == { "a", "b" }

\* what the user can type into the name field and into a namespace field
Names == { "", "my-project" }
Namespaces == { "", " ", " ns " }

\* the session's credential pair (useAuth)
credentials == [username |-> "user", password |-> "secret"]

EmptyServers == [k \in {} |-> [namespace |-> ""]]

\* useForm({ defaultValues }); stack has no default
defaultValues ==
  [ name |-> "", groupId |-> 0, projectType |-> "library",
    stack |-> Undefined, openshiftServers |-> EmptyServers ]

\* projectSchema as zodResolver applies it: the set of fields in error
projectSchema(data) ==
  (IF Len(data.name) >= 1 THEN {} ELSE {"name"})
  \cup (IF data.groupId >= 1 THEN {} ELSE {"groupId"})
  \cup (IF data.projectType \in ProjectTypes THEN {} ELSE {"projectType"})
  \cup { k \in DOMAIN data.openshiftServers :
           ~ (Len(data.openshiftServers[k].namespace) >= 1) }

\* String.prototype.trim for the blank the model types
RECURSIVE trimStart(_)
trimStart(s) ==
  IF Len(s) > 0 /\ CharAt(s, 1) = " " THEN trimStart(SubSeq(s, 2, Len(s))) ELSE s

RECURSIVE trimEnd(_)
trimEnd(s) ==
  IF Len(s) > 0 /\ CharAt(s, Len(s)) = " " THEN trimEnd(SubSeq(s, 1, Len(s) - 1)) ELSE s

trim(s) == trimEnd(trimStart(s))

\* onSubmit: the servers with a namespace that is not blank, trimmed
validServers(servers) ==
  [ k \in { j \in DOMAIN servers :
              /\ servers[j].namespace # ""
              /\ trim(servers[j].namespace) # "" }
      |-> [namespace |-> trim(servers[k].namespace)] ]

\* onSubmit: the body of the createProject request.  openshiftServers is
\* the empty set for undefined, else the set holding the mapping.
projectData(data) ==
  [ name |-> data.name,
    groupId |-> data.groupId,
    projectType |-> data.projectType,
    stack |-> data.stack,
    openshiftServers |->
      IF Cardinality(DOMAIN validServers(data.openshiftServers)) > 0
      THEN { validServers(data.openshiftServers) } ELSE {},
    credentials |-> credentials ]

requiresStack(type) == type # "delivery"
requiresDeployment(type) == type = "delivery" \/ type = "monorepo"

(***************************************************************************)
(* State.                                                                  *)
(***************************************************************************)
VARIABLES
  mounted,          \* the mount effect has run
  groups,           \* useState: common groups
  loadingGroups,    \* useState
  commonRequest,    \* the getCommonGroups promise: "none", "pending",
                    \* "fulfilled" or "rejected"
  offlineToast,     \* the "Using offline mode" toast was raised
  groupOpen,        \* useState: the popover of the group field is open
  searchTerm,       \* useState
  searchResults,    \* useState
  isSearching,      \* useState
  searchCache,      \* the Map of debouncedSearch: term -> results
  timers,           \* pending setTimeout callbacks, in firing order
  inflight,         \* searchGroups requests awaiting their answer
  escaped,          \* a rejection left a handler uncaught
  rendered,         \* the list of the last render (the displayGroups memo)
  name,             \* form value
  groupId,          \* form value: the chosen group (0: none)
  projectType,      \* form value
  stack,            \* form value (Undefined: no stack chosen)
  openshiftServers, \* form value: server key -> [namespace]
  fieldErrors,      \* formState.errors: the fields the resolver rejected at
                    \* the last submit
  isLoading,        \* useState: a submission is in progress
  createInflight,   \* createProject requests awaiting their answer
  createToast,      \* the last toast of onSubmit: "none", "created", "failed"
  createCalls,      \* history: number of createProject requests sent
  \* history of the run, read by the properties only
  scheduled,        \* number of searches scheduled so far
  searchCalls,      \* term -> number of searchGroups requests issued
  failed,           \* history: the searchGroups requests that were rejected
  commonCalls       \* number of getCommonGroups requests issued

loadVars   == << mounted, groups, loadingGroups, commonRequest, offlineToast, commonCalls >>
searchVars == << groupOpen, searchTerm, searchResults, isSearching, searchCache,
                 timers, inflight, scheduled, searchCalls, failed >>
formVars == << name, groupId, projectType, stack, openshiftServers,
              fieldErrors, isLoading, createInflight, createToast, createCalls >>
\* the form values other than groupId
otherFormVars == << name, projectType, stack, openshiftServers,
                   fieldErrors, isLoading, createInflight, createToast, createCalls >>
vars == << loadVars, searchVars, formVars, escaped, rendered >>

LongTerms == { t \in Terms : Len(t) >= MinSearchLen }

\* the state after construction, but for the three inputs of displayGroups
InitRest ==
  /\ mounted = FALSE
  /\ loadingGroups = FALSE
  /\ commonRequest = "none"
  /\ offlineToast = FALSE
  /\ groupOpen = FALSE
  /\ isSearching = FALSE
  /\ searchCache = << >>
  /\ timers = <<>>
  /\ inflight = {}
  /\ escaped = FALSE
  /\ rendered = <<>>
  /\ name = defaultValues.name
  /\ groupId = defaultValues.groupId
  /\ projectType = defaultValues.projectType
  /\ stack = defaultValues.stack
  /\ openshiftServers = defaultValues.openshiftServers
  /\ fieldErrors = {}
  /\ isLoading = FALSE
  /\ createInflight = {}
  /\ createToast = "none"
  /\ createCalls = 0
  /\ scheduled = 0
  /\ searchCalls = [t \in LongTerms |-> 0]
  /\ failed = {}
  /\ commonCalls = 0

Init ==
  /\ InitRest
  /\ groups = <<>>
  /\ searchTerm = ""
  /\ searchResults = <<>>

\* every state change re-renders: useMemo recomputes displayGroups
Render == rendered' = displayGroups(groups', searchResults', searchTerm')

(***************************************************************************)
(* Mount effect and loadGroups.                                            *)
(***************************************************************************)
\* useEffect(() => { loadGroups() }) up to the await of getCommonGroups
Mount ==
  /\ ~mounted
  /\ mounted' = TRUE
  /\ loadingGroups' = TRUE
  /\ commonRequest' = "pending"
  /\ commonCalls' = commonCalls + 1
  /\ UNCHANGED << groups, offlineToast, searchVars, formVars, escaped, rendered >>

\* the try branch of loadGroups after the await, then finally
LoadGroupsSuccess(commonGroups) ==
  /\ commonRequest = "pending"
  /\ commonRequest' = "fulfilled"
  /\ groups' = commonGroups
  /\ loadingGroups' = FALSE
  /\ UNCHANGED << mounted, offlineToast, commonCalls, searchVars, formVars, escaped >>
  /\ Render

\* loadGroups without its catch clause
LoadCatchesNothing == FALSE

\* the catch clause of loadGroups handles every rejection of the request
LoadCatches == TRUE

\* the catch branch of loadGroups, then finally
LoadGroupsFail ==
  /\ commonRequest = "pending"
  /\ commonRequest' = "rejected"
  /\ IF LoadCatches
     THEN /\ groups' = mockGroups
          /\ offlineToast' = TRUE
          /\ escaped' = escaped
     ELSE /\ UNCHANGED << groups, offlineToast >>
          /\ escaped' = TRUE
  /\ loadingGroups' = FALSE
  /\ UNCHANGED << mounted, commonCalls, searchVars, formVars >>
  /\ Render

(***************************************************************************)
(* The popover of the group field.  Its trigger button is disabled while   *)
(* loadingGroups, and the search input and the items live inside it.       *)
(***************************************************************************)
OpenPopover ==
  /\ mounted /\ ~loadingGroups /\ ~groupOpen
  /\ groupOpen' = TRUE
  /\ UNCHANGED << loadVars, searchTerm, searchResults, isSearching, searchCache,
                  timers, inflight, scheduled, searchCalls, failed, formVars, escaped, rendered >>

ClosePopover ==
  /\ groupOpen
  /\ groupOpen' = FALSE
  /\ UNCHANGED << loadVars, searchTerm, searchResults, isSearching, searchCache,
                  timers, inflight, scheduled, searchCalls, failed, formVars, escaped, rendered >>

(***************************************************************************)
(* Search: handleSearchChange, debouncedSearch and its timer callback.     *)
(***************************************************************************)
\* debouncedSearch(term): setTimeout(callback, 300).  The function it
\* returns (clearTimeout) is dropped by its only caller, so the pending
\* callbacks of earlier calls stay scheduled.
debouncedSearch(ts, seq, term) == Append(ts, [seq |-> seq, term |-> term])

\* onValueChange of the search input
handleSearchChange(value) ==
  /\ groupOpen
  /\ value # searchTerm
  /\ searchTerm' = value
  /\ IF Len(value) >= MinSearchLen
     THEN /\ scheduled < MaxSearches
          /\ isSearching' = TRUE
          /\ scheduled' = scheduled + 1
          /\ timers' = debouncedSearch(timers, scheduled + 1, value)
          /\ UNCHANGED searchResults
     ELSE /\ searchResults' = <<>>
          /\ isSearching' = FALSE
          /\ UNCHANGED << timers, scheduled >>
  /\ UNCHANGED << loadVars, groupOpen, searchCache, inflight, searchCalls,
                  failed, formVars, escaped >>
  /\ Render

\* searchCache.has(term)
cacheHas(cache, term) == term \in DOMAIN cache

\* searchCache.set(term, results)
cacheSet(cache, term, results) ==
  [t \in DOMAIN cache \cup {term} |-> IF t = term THEN results ELSE cache[t]]

\* the setTimeout callback up to its first await (or to its end)
TimerFire ==
  /\ timers # <<>>
  /\ LET t == Head(timers) IN
     /\ timers' = Tail(timers)
     /\ IF Len(t.term) >= MinSearchLen
        THEN IF cacheHas(searchCache, t.term)
             THEN /\ searchResults' = searchCache[t.term]
                  /\ isSearching' = FALSE
                  /\ UNCHANGED << inflight, searchCalls >>
             ELSE /\ isSearching' = TRUE
                  /\ inflight' = inflight \cup {t}
                  /\ searchCalls' = [searchCalls EXCEPT ![t.term] = @ + 1]
                  /\ UNCHANGED searchResults
        ELSE /\ searchResults' = <<>>
             /\ isSearching' = FALSE
             /\ UNCHANGED << inflight, searchCalls >>
  /\ UNCHANGED << loadVars, groupOpen, searchTerm, searchCache, scheduled,
                  failed, formVars, escaped >>
  /\ Render

\* the callback after the await: searchGroups resolved with results
SearchSuccess(c, results) ==
  /\ c \in inflight
  /\ inflight' = inflight \ {c}
  /\ searchCache' = cacheSet(searchCache, c.term, results)
  /\ searchResults' = results
  /\ isSearching' = FALSE
  /\ UNCHANGED << loadVars, groupOpen, searchTerm, timers, scheduled,
                  searchCalls, failed, formVars, escaped >>
  /\ Render

\* the callback without its catch clause
SearchCatchesNothing == FALSE

\* the catch clause of the callback handles every rejection of the request
SearchCatches == TRUE

\* the callback after the await: searchGroups rejected
SearchFail(c) ==
  /\ c \in inflight
  /\ inflight' = inflight \ {c}
  /\ failed' = failed \cup {c}
  /\ IF SearchCatches
     THEN /\ searchResults' = <<>>
                  /\ escaped' = escaped
     ELSE /\ UNCHANGED searchResults
          /\ escaped' = TRUE
  /\ isSearching' = FALSE
  /\ UNCHANGED << loadVars, groupOpen, searchTerm, searchCache, timers,
                  scheduled, searchCalls, formVars >>
  /\ Render

\* onSelect of an item of the list
SelectGroup ==
  /\ groupOpen
  /\ \E i \in 1..Len(rendered) : groupId' = rendered[i].id
  /\ groupOpen' = FALSE
  /\ searchTerm' = ""
  /\ searchResults' = <<>>
  /\ UNCHANGED << loadVars, isSearching, searchCache, timers, inflight,
                  scheduled, searchCalls, failed, otherFormVars, escaped >>
  /\ Render

(***************************************************************************)
(* The project form: field handlers and submission.                        *)
(***************************************************************************)
formData ==
  [ name |-> name, groupId |-> groupId, projectType |-> projectType,
    stack |-> stack, openshiftServers |-> openshiftServers ]

\* the name input
SetName(v) ==
  /\ mounted
  /\ v # name
  /\ name' = v
  /\ UNCHANGED << loadVars, searchVars, groupId, projectType, stack,
                  openshiftServers, fieldErrors, isLoading, createInflight,
                  createToast, createCalls, escaped, rendered >>

\* the radio group of the project type
SetProjectType(t) ==
  /\ mounted
  /\ t # projectType
  /\ projectType' = t
  /\ UNCHANGED << loadVars, searchVars, name, groupId, stack,
                  openshiftServers, fieldErrors, isLoading, createInflight,
                  createToast, createCalls, escaped, rendered >>

\* the stack select, rendered only when requiresStack
SetStack(v) ==
  /\ mounted
  /\ requiresStack(projectType)
  /\ v # stack
  /\ stack' = v
  /\ UNCHANGED << loadVars, searchVars, name, groupId, projectType,
                  openshiftServers, fieldErrors, isLoading, createInflight,
                  createToast, createCalls, escaped, rendered >>

isServerSelected(serverKey) == serverKey \in DOMAIN openshiftServers

\* the checkbox of a server, rendered only when requiresDeployment
\* toggleServer without the spread of currentServers: checking a server
\* replaces the whole mapping
toggleServerDropsOthers(serverKey, checked) ==
  /\ mounted
  /\ requiresDeployment(projectType)
  /\ checked = ~ isServerSelected(serverKey)
  /\ openshiftServers' =
       IF checked
       THEN [k \in {serverKey} |-> [namespace |-> ""]]
       ELSE [k \in DOMAIN openshiftServers \ {serverKey} |-> openshiftServers[k]]
  /\ UNCHANGED << loadVars, searchVars, name, groupId, projectType, stack,
                  fieldErrors, isLoading, createInflight, createToast,
                  createCalls, escaped, rendered >>

toggleServer(serverKey, checked) ==
  /\ mounted
  /\ requiresDeployment(projectType)
  /\ checked = ~ isServerSelected(serverKey)
  /\ openshiftServers' =
       IF checked
       THEN [k \in DOMAIN openshiftServers \cup {serverKey} |->
               IF k = serverKey THEN [namespace |-> ""] ELSE openshiftServers[k]]
       ELSE [k \in DOMAIN openshiftServers \ {serverKey} |-> openshiftServers[k]]
  /\ UNCHANGED << loadVars, searchVars, name, groupId, projectType, stack,
                  fieldErrors, isLoading, createInflight, createToast,
                  createCalls, escaped, rendered >>

\* the namespace input of a selected server
SetNamespace(serverKey, v) ==
  /\ mounted
  /\ requiresDeployment(projectType)
  /\ isServerSelected(serverKey)
  /\ v # openshiftServers[serverKey].namespace
  /\ openshiftServers' = [openshiftServers EXCEPT ![serverKey] = [namespace |-> v]]
  /\ UNCHANGED << loadVars, searchVars, name, groupId, projectType, stack,
                  fieldErrors, isLoading, createInflight, createToast,
                  createCalls, escaped, rendered >>

\* form.handleSubmit(onSubmit): the resolver, then onSubmit up to the await
\* of createProject.  The submit button is disabled while isLoading.
Submit ==
  /\ mounted
  /\ ~isLoading
  /\ createCalls < MaxSubmits
  /\ fieldErrors' = projectSchema(formData)
  /\ IF projectSchema(formData) = {}
     THEN /\ isLoading' = TRUE
          /\ createInflight' = createInflight \cup { projectData(formData) }
          /\ createCalls' = createCalls + 1
     ELSE UNCHANGED << isLoading, createInflight, createCalls >>
  /\ UNCHANGED << loadVars, searchVars, name, groupId, projectType, stack,
                  openshiftServers, createToast, escaped, rendered >>

\* onSubmit after the await: createProject resolved; form.reset()
CreateSuccess(req) ==
  /\ req \in createInflight
  /\ createInflight' = createInflight \ {req}
  /\ createToast' = "created"
  /\ name' = defaultValues.name
  /\ groupId' = defaultValues.groupId
  /\ projectType' = defaultValues.projectType
  /\ stack' = defaultValues.stack
  /\ openshiftServers' = defaultValues.openshiftServers
  /\ fieldErrors' = {}
  /\ isLoading' = FALSE
  /\ UNCHANGED << loadVars, searchVars, createCalls, escaped, rendered >>

\* onSubmit whose catch branch also resets the form
CreateFailResets(req) ==
  /\ req \in createInflight
  /\ createInflight' = createInflight \ {req}
  /\ createToast' = "failed"
  /\ name' = defaultValues.name
  /\ groupId' = defaultValues.groupId
  /\ projectType' = defaultValues.projectType
  /\ stack' = defaultValues.stack
  /\ openshiftServers' = defaultValues.openshiftServers
  /\ isLoading' = FALSE
  /\ UNCHANGED << loadVars, searchVars, fieldErrors, createCalls, escaped,
                  rendered >>

\* onSubmit after the await: createProject rejected
CreateFail(req) ==
  /\ req \in createInflight
  /\ createInflight' = createInflight \ {req}
  /\ createToast' = "failed"
  /\ isLoading' = FALSE
  /\ UNCHANGED << loadVars, searchVars, name, groupId, projectType, stack,
                  openshiftServers, fieldErrors, createCalls, escaped, rendered >>

(***************************************************************************)
(* Specifications.                                                         *)
(***************************************************************************)
LoadNext ==
  \/ Mount
  \/ \E r \in Responses : LoadGroupsSuccess(r)
  \/ LoadGroupsFail

Next ==
  \/ LoadNext
  \/ OpenPopover
  \/ ClosePopover
  \/ \E v \in Terms : handleSearchChange(v)
  \/ TimerFire
  \/ \E c \in inflight : \E r \in Responses : SearchSuccess(c, r)
  \/ \E c \in inflight : SearchFail(c)
  \/ SelectGroup

Spec == Init /\ [][Next]_vars

\* the form on its own: the groups are loaded and one is picked from the
\* list, the search input is left alone
FormNext ==
  \/ LoadNext
  \/ OpenPopover
  \/ SelectGroup
  \/ \E v \in Names : SetName(v)
  \/ \E t \in ProjectTypes : SetProjectType(t)
  \/ \E v \in Stacks : SetStack(v)
  \/ \E k \in ServerKeys : \E checked \in BOOLEAN : toggleServer(k, checked)
  \/ \E k \in ServerKeys : \E v \in Namespaces : SetNamespace(k, v)
  \/ Submit
  \/ \E req \in createInflight : CreateSuccess(req)
  \/ \E req \in createInflight : CreateFail(req)

FormSpec == Init /\ [][FormNext]_vars

(***************************************************************************)
(* displayGroups as a function of its three inputs.                        *)
(***************************************************************************)
DisplayDirectory ==
  { Group(1, "frontend-team", "company/frontend-team"),
    Group(4, "platform-team", "company/platform-team"),
    Group(7, "Platform Guild", "company/Infra-PLATFORM") }

\* lists with and without repeated ids
DisplayLists == SeqsUpTo(DisplayDirectory, MaxResults)

DisplayTerms == Terms \cup { "platform" }

DisplayInit ==
  /\ InitRest
  /\ groups \in DisplayLists
  /\ searchResults \in DisplayLists
  /\ searchTerm \in DisplayTerms

\* one evaluation of the memo
ResolveDisplaySet ==
  /\ rendered' = displayGroups(groups, searchResults, searchTerm)
  /\ UNCHANGED << loadVars, searchVars, formVars, escaped >>

DisplayNext == ResolveDisplaySet

DisplaySpec == DisplayInit /\ [][DisplayNext]_vars

(***************************************************************************)
(* Properties.                                                             *)
(***************************************************************************)
\* a step that runs the head of the timer queue
TimerStep == timers # <<>> /\ timers' = Tail(timers)

\* C1: only the response of the most recently scheduled search is applied
\* to searchResults; the response of a superseded search leaves
\* searchResults as it is.
C1_OnlyLatestApplied ==
  [][\A c \in inflight :
       (c \notin inflight' /\ c.seq # scheduled) => searchResults' = searchResults]_vars

\* C2: debounce collapse: a new search cancels the pending one, so at most
\* one scheduled search is pending at any time.
C2_DebounceCollapse == Len(timers) <= 1

\* C3: while searchTerm is shorter than 3, searchResults is empty and no
\* remote search call is issued.
C3_ShortTermQuiet ==
  [][/\ Len(searchTerm') < MinSearchLen => searchResults' = <<>>
     /\ Len(searchTerm) < MinSearchLen => searchCalls' = searchCalls]_vars

\* C4: a term searched twice costs exactly one remote call, the second
\* search being served from the cache: as long as no request has failed
\* (the claim speaks of a first result), no term is requested twice.
C4_OneCallPerTerm ==
  failed = {} => \A t \in LongTerms : searchCalls[t] <= 1

\* C5: a cache entry, once written, is never overwritten or removed.
C5_CacheWriteOnce ==
  [][\A t \in DOMAIN searchCache :
       t \in DOMAIN searchCache' /\ searchCache'[t] = searchCache[t]]_vars

NoDuplicateIds(q) == \A i, j \in 1..Len(q) : q[i].id = q[j].id => i = j

Occurrences(q, id) == Cardinality({ i \in 1..Len(q) : q[i].id = id })

\* the entry of id in q comes before every entry that is not a common group
AheadOfSearchOnly(q, id) ==
  \A i \in 1..Len(q) :
    q[i].id = id => \A j \in 1..(i - 1) : q[j].id \in Ids(groups)

\* path contains term, ignoring case
ContainsIgnoreCase(path, term) ==
  \E off \in 0..(Len(path) - Len(term)) :
    \A k \in 1..Len(term) :
      LowerChar(CharAt(path, off + k)) = LowerChar(CharAt(term, k))

\* the common groups that are themselves shown for the current term
ShownCommonIds ==
  { groups[i].id : i \in { j \in 1..Len(groups) :
      \/ Len(searchTerm) < MinSearchLen
      \/ ContainsIgnoreCase(groups[j].full_path, searchTerm) } }

\* C6 as stated: the display set has no id twice, and an id shared by a
\* common group and a search result appears once, at the position of the
\* common-group entry (ahead of every entry that is not a common group).
C6_SharedIdAtCommonPosition ==
  /\ NoDuplicateIds(rendered)
  /\ \A id \in Ids(groups) \cap Ids(searchResults) :
       /\ Occurrences(rendered, id) = 1
       /\ AheadOfSearchOnly(rendered, id)

\* C6 as amended: the display set has no id twice; an id shared by a common
\* group and a search result appears once; it is at the position of the
\* common-group entry when that common group is itself shown (term shorter
\* than 3, or its path contains the term ignoring case).
C6_ShownCommonEntryWins ==
  /\ NoDuplicateIds(rendered)
  /\ \A id \in Ids(groups) \cap Ids(searchResults) :
       /\ Occurrences(rendered, id) = 1
       /\ id \in ShownCommonIds => AheadOfSearchOnly(rendered, id)

\* a matching common group is also the second search result: it is shown
\* once, first, and the search-only result follows it
C6_Witness ==
  /\ Len(searchTerm) >= MinSearchLen
  /\ Len(searchResults) = 2
  /\ Len(rendered) = 2
  /\ rendered[1].id \in ShownCommonIds
  /\ rendered[1].id = searchResults[2].id
  /\ rendered[2].id \notin Ids(groups)

RECURSIVE KeepFirstById(_)
\* q without the entries whose id occurred earlier in q
KeepFirstById(q) ==
  IF q = <<>> THEN <<>>
  ELSE LET front == KeepFirstById(SubSeq(q, 1, Len(q) - 1))
           last  == q[Len(q)]
       IN  IF last.id \in Ids(front) THEN front ELSE Append(front, last)

\* the display set as the claim describes it
Resolved(commonGroups, results, term) ==
  IF Len(term) < 3
  THEN commonGroups
  ELSE KeepFirstById(
         SelectSeq(commonGroups, LAMBDA g : ContainsIgnoreCase(g.full_path, term))
         \o results)

\* C7: resolveDisplaySet depends on (commonGroups, searchResults, searchTerm)
\* only: commonGroups as they are for a term shorter than 3, else the common
\* groups whose path contains the term ignoring case, then the search
\* results, later duplicates by id removed.
C7_ResolveDisplaySet ==
  [][rendered' = Resolved(groups', searchResults', searchTerm')]_vars

\* the example of the claim: common [1], term "platform", results [4]
C7_Witness ==
  /\ groups = << Group(1, "frontend-team", "company/frontend-team") >>
  /\ searchTerm = "platform"
  /\ searchResults = << Group(4, "platform-team", "company/platform-team") >>
  /\ rendered = << Group(4, "platform-team", "company/platform-team") >>

\* C8: a failed search empties searchResults, clears isSearching, writes
\* nothing to the cache, issues no request and lets no error escape; a
\* search that runs for a term the cache does not hold issues a request.
C8_SearchFailureAbsorbed ==
  [][/\ failed' # failed =>
          /\ searchResults' = <<>>
          /\ isSearching' = FALSE
          /\ searchCache' = searchCache
          /\ searchCalls' = searchCalls
          /\ inflight' \subseteq inflight
          /\ timers' = timers
          /\ escaped' = FALSE
     /\ (TimerStep /\ Head(timers).term \notin DOMAIN searchCache) =>
          /\ Head(timers) \in inflight'
          /\ searchCalls'[Head(timers).term] = searchCalls[Head(timers).term] + 1]_vars

\* a search failed, its term is not cached, and a later search of the same
\* term has a fresh request in flight
C8_Witness ==
  \E f \in failed : \E c \in inflight :
    /\ c.term = f.term
    /\ c.seq > f.seq
    /\ f.term \notin DOMAIN searchCache
    /\ searchCalls[f.term] = 2

\* C9: one getCommonGroups request, issued on mount; after its failure the
\* common groups are the 6 fallback groups, the offline notice is raised,
\* loadingGroups is cleared and nothing escaped; never a second request.
C9_LoadOnceWithFallback ==
  /\ commonCalls = (IF mounted THEN 1 ELSE 0)
  /\ commonRequest = "rejected" =>
       /\ groups = mockGroups
       /\ Len(groups) = 6
       /\ offlineToast
       /\ ~loadingGroups
  /\ ~escaped

\* the load failed and the session went on to search: still one request
C9_Witness ==
  /\ commonRequest = "rejected"
  /\ commonCalls = 1
  /\ Len(rendered) = 6
  /\ searchCalls # [t \in LongTerms |-> 0]

\* C10: every create-project request that was sent has a name, a group, a
\* project type and, unless the type is "delivery", a stack.
C10_OnlyValidRequestsSent ==
  \A req \in createInflight :
    /\ Len(req.name) >= 1
    /\ req.groupId >= 1
    /\ req.projectType \in ProjectTypes
    /\ (req.projectType # "delivery" => req.stack # Undefined)

\* C11: blank namespaces are dropped and the others trimmed on submission:
\* every namespace of a sent request is non-empty and trimmed, and no
\* deployment target, blank or not, makes the resolver block the submission.
C11_BlankTargetsDropped ==
  /\ \A req \in createInflight : \A servers \in req.openshiftServers :
       \A k \in DOMAIN servers :
         /\ servers[k].namespace # ""
         /\ trim(servers[k].namespace) = servers[k].namespace
  /\ fieldErrors \cap ServerKeys = {}

\* a server's entry is the same before and after the step
SameEntry(k) ==
  /\ (k \in DOMAIN openshiftServers') <=> (k \in DOMAIN openshiftServers)
  /\ k \in DOMAIN openshiftServers => openshiftServers'[k] = openshiftServers[k]

\* a checkbox of the deployment section was toggled: the set of selected
\* servers changes and the step is not the reset after a created project
ToggleStep ==
  /\ DOMAIN openshiftServers' # DOMAIN openshiftServers
  /\ createInflight' = createInflight

\* C12: a toggle changes one deployment target only: toggling a server on adds
\* its entry with an empty namespace, toggling it off removes its key, and the
\* entries of all other servers are unchanged.
C12_ToggleIndependence ==
  [][ ToggleStep =>
        \E k \in ServerKeys :
          /\ \/ /\ k \notin DOMAIN openshiftServers
                /\ k \in DOMAIN openshiftServers'
                /\ openshiftServers'[k] = [namespace |-> ""]
             \/ /\ k \in DOMAIN openshiftServers
                /\ k \notin DOMAIN openshiftServers'
          /\ \A j \in ServerKeys \ {k} : SameEntry(j) ]_vars

\* server "a" has just been toggled on next to server "b", whose namespace
\* was typed before
C12_Witness ==
  /\ DOMAIN openshiftServers = { "a", "b" }
  /\ openshiftServers["a"].namespace = ""
  /\ openshiftServers["b"].namespace = " ns "

\* a createProject call has completed
CreateDone ==
  /\ createInflight' # createInflight
  /\ createInflight' \subseteq createInflight

\* C13: when createProject completes the loading flag is cleared and no
\* second request is made; after a success every form field is back at its
\* default, after a failure every entered value is kept and the failure
\* notice is shown.
C13_FormAfterSubmit ==
  [][ CreateDone =>
        /\ isLoading' = FALSE
        /\ createCalls' = createCalls
        /\ \/ /\ createToast' = "created"
              /\ formData' = defaultValues
           \/ /\ createToast' = "failed"
              /\ formData' = formData ]_vars

\* a submission has failed and the entered values are still in the form
C13_Witness ==
  /\ createToast = "failed"
  /\ createCalls >= 1
  /\ createInflight = {}
  /\ ~ isLoading
  /\ name = "my-project"
  /\ groupId # defaultValues.groupId
  /\ projectType = "monorepo"
  /\ openshiftServers # EmptyServers

\* onSelect of a listed group has run: the popover closes and the chosen
\* value, the term or the results change
SelectStep ==
  /\ groupOpen
  /\ ~ groupOpen'
  /\ \/ groupId' # groupId
     \/ searchTerm' # searchTerm
     \/ searchResults' # searchResults

\* C14: selecting a listed group records its id, empties searchTerm and
\* searchResults, so that the list shown is commonGroups, and leaves the
\* cache alone; once a group has been selected every cached term keeps the
\* result set it had, so searching it again shows the same results.
C14_SelectionKeepsCache ==
  [][ /\ SelectStep =>
           /\ groupId' \in Ids(rendered)
           /\ searchTerm' = ""
           /\ searchResults' = <<>>
           /\ rendered' = groups'
           /\ searchCache' = searchCache
      /\ groupId # defaultValues.groupId =>
           \A t \in DOMAIN searchCache :
             /\ cacheHas(searchCache', t)
             /\ searchCache'[t] = searchCache[t] ]_vars

\* the search of the current term: its timer is pending or its request is
\* not yet answered
CurrentSearchUnfinished ==
  /\ Len(searchTerm) >= MinSearchLen
  /\ \/ \E i \in 1..Len(timers) :
          timers[i].seq = scheduled /\ timers[i].term = searchTerm
     \/ \E c \in inflight : c.seq = scheduled /\ c.term = searchTerm

\* C15: the busy flag is accurate: while the search of the current term
\* (of length 3 or more) is pending or in flight, isSearching is true.
C15_BusyFlagAccurate == CurrentSearchUnfinished => isSearching

\* C16: a hidden field contributes nothing to the request: a sent request
\* carries deployment targets only with project type "delivery" or
\* "monorepo", and a stack only with a project type other than "delivery".
C16_HiddenFieldsNotSent ==
  \A req \in createInflight :
    /\ (\E servers \in req.openshiftServers : DOMAIN servers # {})
         => requiresDeployment(req.projectType)
    /\ req.stack # Undefined => requiresStack(req.projectType)

=============================================================================
